---- MODULE Spec2Model ----
(***************************************************************************)
(* Model of plugins/gstrgavideoconvert.c: the rgavideoconvert element.     *)
(*                                                                         *)
(*  - the GstVideoFormat -> RgaSURF_FORMAT table,                          *)
(*  - the rga_info_t descriptor build (gst_set_rga_info,                   *)
(*    gst_rga_info_from_video_frame),                                      *)
(*  - caps negotiation (gst_rga_video_convert_transform_caps),             *)
(*  - the element's start / stop / set_info / transform_frame vfuncs.      *)
(*                                                                         *)
(* Three specifications share the variables:                               *)
(*   Spec       the element's life: set_property, start, stop, set_info,   *)
(*              transform_frame;                                           *)
(*   SpecBuild  the descriptor build applied to one frame;                 *)
(*   SpecCaps   transform_caps applied to one caps / direction / filter.   *)
(***************************************************************************)
EXTENDS Integers, Sequences, FiniteSets, TLC

VARIABLES
    core_mask,     \* GstRgaVideoConvert.core_mask
    rgaInits,      \* number of c_RkRgaInit() calls made so far
    rgaDeInits,    \* number of c_RkRgaDeInit() calls made so far
    running,       \* the base class's view: start() was the last of start/stop
    schedCore,     \* last value handed to imconfig(IM_CONFIG_SCHEDULER_CORE, .)
    negotiated,    \* result and formats of the last set_info
    mapCount,      \* outstanding gst_buffer_map mappings, per frame buffer
    nConvert,      \* transform_frame calls made so far
    blitFailures,  \* transform_frame calls in which c_RkRgaBlit returned < 0
    conv,          \* arguments and outcome of the last transform_frame
    bframe,        \* SpecBuild: the frame handed to the descriptor build
    bres,          \* SpecBuild: outcome of the descriptor build
    capsIn,        \* SpecCaps: caps argument of transform_caps
    capsDir,       \* SpecCaps: direction argument
    capsFilter,    \* SpecCaps: filter argument (NoFilter for NULL)
    capsRet        \* SpecCaps: the caps returned, and how many calls were made

vars == <<core_mask, rgaInits, rgaDeInits, running, schedCore, negotiated,
          mapCount, nConvert, blitFailures, conv, bframe, bres,
          capsIn, capsDir, capsFilter, capsRet>>

lifeVars  == <<core_mask, rgaInits, rgaDeInits, running, schedCore, negotiated,
               mapCount, nConvert, blitFailures, conv>>
buildVars == <<bframe, bres>>
capsVars  == <<capsIn, capsDir, capsFilter, capsRet>>

(***************************************************************************)
(* Bounds of the model.                                                    *)
(***************************************************************************)
MaxLifecycle == 1   \* start() calls, and stop() calls, explored
MaxConverts  == 3   \* transform_frame calls explored
MaxDim       == 4   \* small frame widths / heights 1..MaxDim
MaxPad       == 1   \* padding pixels per row / padding rows of a frame
MaxCaps      == 2   \* structures in a caps argument
MaxRounds    == 3   \* successive transform_caps calls on one caps

(***************************************************************************)
(* Formats.                                                                *)
(***************************************************************************)
\* config.h switch guarding the 10-bit NV12 case of the table
HAVE_NV12_10LE40 == FALSE

\* the formats named in the pad templates
TemplateFormats ==
    {"I420", "YV12", "NV12", "NV21", "Y42B", "NV16", "NV61", "RGB16", "RGB15",
     "BGR", "RGB", "BGRA", "RGBA", "BGRx", "RGBx"}

\* GstVideoFormat values the model draws from: the template formats and two
\* the table has no case for (as built)
GstVideoFormats == TemplateFormats \cup {"NV12_10LE40", "GRAY8"}

gst_gst_format_to_rga_format(format) ==
    CASE format = "I420" -> "RK_FORMAT_YCbCr_420_P"
      [] format = "YV12" -> "RK_FORMAT_YCrCb_420_P"
      [] format = "NV12" -> "RK_FORMAT_YCbCr_420_SP"
      [] format = "NV21" -> "RK_FORMAT_YCrCb_420_SP"
      [] format = "NV12_10LE40" /\ HAVE_NV12_10LE40 -> "RK_FORMAT_YCbCr_420_SP_10B"
      [] format = "Y42B" -> "RK_FORMAT_YCbCr_422_P"
      [] format = "NV16" -> "RK_FORMAT_YCbCr_422_SP"
      [] format = "NV61" -> "RK_FORMAT_YCrCb_422_SP"
      [] format = "RGB16" -> "RK_FORMAT_RGB_565"
      [] format = "RGB15" -> "RK_FORMAT_RGBA_5551"
      [] format = "BGR" -> "RK_FORMAT_BGR_888"
      [] format = "RGB" -> "RK_FORMAT_RGB_888"
      [] format = "BGRA" -> "RK_FORMAT_BGRA_8888"
      [] format = "RGBA" -> "RK_FORMAT_RGBA_8888"
      [] format = "BGRx" -> "RK_FORMAT_BGRX_8888"
      [] format = "RGBx" -> "RK_FORMAT_RGBX_8888"
      [] OTHER -> "RK_FORMAT_UNKNOWN"

(***************************************************************************)
(* rga_info_t and the descriptor build.                                    *)
(***************************************************************************)
\* rga_rect_t as rga_set_rect fills it: wstride is the horizontal stride,
\* hstride the vertical one
ZeroRect ==
    [xoffset |-> 0, yoffset |-> 0, width |-> 0, height |-> 0,
     wstride |-> 0, hstride |-> 0, format |-> "0"]

\* rga_info_t x = {0,}
ZeroInfo ==
    [fd |-> 0, virAddr |-> "NULL", mmuFlag |-> 0, core |-> 0, rect |-> ZeroRect]

\* GstMapInfo x = {0,}
ZeroMapInfo == [memory |-> "NULL", data |-> "NULL"]

\* pixel_stride of the switch; 0 stands for the default branch
PixelStride(format) ==
    CASE format \in {"RK_FORMAT_RGBX_8888", "RK_FORMAT_BGRX_8888",
                     "RK_FORMAT_RGBA_8888", "RK_FORMAT_BGRA_8888"} -> 4
      [] format \in {"RK_FORMAT_RGB_888", "RK_FORMAT_BGR_888"} -> 3
      [] format \in {"RK_FORMAT_RGBA_5551", "RK_FORMAT_RGB_565"} -> 2
      [] format \in {"RK_FORMAT_YCbCr_420_SP_10B", "RK_FORMAT_YCbCr_422_SP",
                     "RK_FORMAT_YCrCb_422_SP", "RK_FORMAT_YCbCr_422_P",
                     "RK_FORMAT_YCrCb_422_P", "RK_FORMAT_YCbCr_420_SP",
                     "RK_FORMAT_YCrCb_420_SP", "RK_FORMAT_YCbCr_420_P",
                     "RK_FORMAT_YCrCb_420_P"} -> 1
      [] OTHER -> 0

\* width &= ~1 on a guint (frame sizes and strides are far below 2^32, so
\* the unsigned arithmetic of the function never wraps)
AlignDown2(x) == x - (x % 2)

\* variant: the YUV branch without the alignment of width and height
gst_set_rga_info_NoAlign(info, format, width, height, hstride, vstride) ==
    LET pixel_stride == PixelStride(format)
        hs == IF pixel_stride > 0 /\ hstride \div pixel_stride >= width
              THEN hstride \div pixel_stride ELSE hstride
    IN  IF pixel_stride = 0 THEN [ok |-> FALSE, info |-> info]
        ELSE IF info.fd < 0 /\ info.virAddr = "NULL"
        THEN [ok |-> FALSE, info |-> info]
        ELSE [ok |-> TRUE,
              info |-> [info EXCEPT
                  !.mmuFlag = 1,
                  !.rect = [xoffset |-> 0, yoffset |-> 0,
                            width |-> width, height |-> height,
                            wstride |-> hs, hstride |-> vstride,
                            format |-> format]]]

\* returns [ok, info]: the gboolean result and *info afterwards
gst_set_rga_info(info, format, width, height, hstride, vstride) ==
    LET pixel_stride == PixelStride(format)
        \* RGA requires yuv image rect align to 2
        w == IF pixel_stride = 1 THEN AlignDown2(width) ELSE width
        h == IF pixel_stride = 1 THEN AlignDown2(height) ELSE height
        hs == IF pixel_stride > 0 /\ hstride \div pixel_stride >= w
              THEN hstride \div pixel_stride ELSE hstride
    IN  IF pixel_stride = 0 THEN [ok |-> FALSE, info |-> info]
        ELSE IF info.fd < 0 /\ info.virAddr = "NULL"
        THEN [ok |-> FALSE, info |-> info]
        ELSE [ok |-> TRUE,
              info |-> [info EXCEPT
                  !.mmuFlag = 1,
                  !.rect = [xoffset |-> 0, yoffset |-> 0,
                            width |-> w, height |-> h,
                            wstride |-> hs, hstride |-> vstride,
                            format |-> format]]]

\* gst_buffer_map(inbuf, mapInfo, mapFlag) on the frame's buffer: a buffer
\* without memory and a memory that cannot be mapped both leave *mapInfo zeroed
gst_buffer_map(frame) ==
    IF frame.mem.n_memory > 0 /\ frame.mem.map_ok
    THEN [memory |-> "mem", data |-> "data"]
    ELSE ZeroMapInfo

\* returns [ok, info, mapInfo, mapCalled]
gst_rga_info_from_video_frame(info, frame, mapInfo) ==
    LET rga_format == gst_gst_format_to_rga_format(frame.format)
        width   == frame.width
        height  == frame.height
        hstride == frame.stride
        vstride == IF frame.n_planes = 1 THEN frame.height
                   ELSE frame.offset1 \div hstride
        set     == gst_set_rga_info(info, rga_format, width, height, hstride, vstride)
        mem     == frame.mem
        fd      == IF mem.n_memory = 1 /\ mem.is_dmabuf /\ mem.offset = 0
                   THEN mem.fd ELSE set.info.fd
        mi      == gst_buffer_map(frame)
    IN  IF ~set.ok
        THEN [ok |-> FALSE, info |-> set.info, mapInfo |-> mapInfo, mapCalled |-> FALSE]
        ELSE IF fd <= 0
        THEN [ok |-> TRUE, info |-> [set.info EXCEPT !.fd = fd, !.virAddr = mi.data],
              mapInfo |-> mi, mapCalled |-> TRUE]
        ELSE [ok |-> TRUE, info |-> [set.info EXCEPT !.fd = fd],
              mapInfo |-> mapInfo, mapCalled |-> FALSE]

(***************************************************************************)
(* Frames handed to transform_frame.                                       *)
(***************************************************************************)
\* GST_VIDEO_FRAME_N_PLANES for a format
GstNPlanes(format) ==
    CASE format \in {"I420", "YV12", "Y42B"} -> 3
      [] format \in {"NV12", "NV21", "NV16", "NV61", "NV12_10LE40"} -> 2
      [] OTHER -> 1

\* bytes per pixel in plane 0 of a format
GstPixelBytes(format) ==
    CASE format \in {"BGRA", "RGBA", "BGRx", "RGBx"} -> 4
      [] format \in {"BGR", "RGB"} -> 3
      [] format \in {"RGB16", "RGB15"} -> 2
      [] OTHER -> 1

\* the buffer behind a frame: number of GstMemory blocks, whether block 0 is
\* a dmabuf, its offset and fd, and whether gst_memory_map succeeds on it
HostMem     == [n_memory |-> 1, is_dmabuf |-> FALSE, offset |-> 0, fd |-> -1, map_ok |-> TRUE]
HostNoMap   == [n_memory |-> 1, is_dmabuf |-> FALSE, offset |-> 0, fd |-> -1, map_ok |-> FALSE]
EmptyBuffer == [n_memory |-> 0, is_dmabuf |-> FALSE, offset |-> 0, fd |-> -1, map_ok |-> FALSE]
TwoBlocks   == [n_memory |-> 2, is_dmabuf |-> TRUE, offset |-> 0, fd |-> 5, map_ok |-> TRUE]
DmaBuf      == [n_memory |-> 1, is_dmabuf |-> TRUE, offset |-> 0, fd |-> 5, map_ok |-> TRUE]
DmaBufFd0   == [n_memory |-> 1, is_dmabuf |-> TRUE, offset |-> 0, fd |-> 0, map_ok |-> TRUE]
DmaBufOff   == [n_memory |-> 1, is_dmabuf |-> TRUE, offset |-> 16, fd |-> 5, map_ok |-> TRUE]

MemKinds == {HostMem, HostNoMap, EmptyBuffer, TwoBlocks, DmaBuf, DmaBufFd0, DmaBufOff}

\* the buffers transform_frame is driven with: one per outcome of the memory
\* selection (mapped, mapping failed, exported fd, exported fd 0)
ConvMemKinds == {HostMem, HostNoMap, DmaBuf, DmaBufFd0}

\* a tightly packed frame of the given format and size over the given buffer
Frame(format, width, height, mem) ==
    [format |-> format, width |-> width, height |-> height,
     stride |-> width * GstPixelBytes(format),
     n_planes |-> GstNPlanes(format),
     offset1 |-> IF GstNPlanes(format) = 1 THEN 0
                 ELSE width * GstPixelBytes(format) * height,
     mem |-> mem]

(***************************************************************************)
(* The element's vfuncs.                                                   *)
(***************************************************************************)
\* values of the core-mask property the model sets: 0 is the zero-filled
\* instance field, the others are bits of the flags type
CoreMasks == {0, 1}

\* formats offered to set_info: one the table maps and one it does not, on
\* each side
InFormats  == {"NV12", "GRAY8"}
OutFormats == {"RGBA", "GRAY8"}

\* the gboolean set_info returns
gst_rga_video_convert_set_info(in_format, out_format) ==
    ~ (gst_gst_format_to_rga_format(in_format) = "RK_FORMAT_UNKNOWN" \/
       gst_gst_format_to_rga_format(in_format) = "RK_FORMAT_UNKNOWN")

\* gst_buffer_unmap(buffer, info) releases a mapping only when info->memory
\* is set
Releases(called, mapInfo) == called /\ mapInfo.memory # "NULL"

\* variant: return on a failed blit ahead of the two gst_buffer_unmap calls
gst_rga_video_convert_transform_frame_EarlyError(mask, inframe, outframe, blitRet) ==
    LET src == gst_rga_info_from_video_frame(ZeroInfo, inframe, ZeroMapInfo)
        dst == gst_rga_info_from_video_frame(ZeroInfo, outframe, ZeroMapInfo)
        none == [ret |-> "GST_FLOW_ERROR", src_info |-> src.info, dst_info |-> ZeroInfo,
                 inMapinfo |-> src.mapInfo, outMapinfo |-> ZeroMapInfo,
                 inMapCalled |-> src.mapCalled, outMapCalled |-> FALSE,
                 blitCalled |-> FALSE, unmapIn |-> FALSE, unmapOut |-> FALSE]
    IN  IF ~src.ok
        THEN [none EXCEPT !.src_info = ZeroInfo, !.inMapinfo = ZeroMapInfo,
                          !.inMapCalled = FALSE]
        ELSE IF ~dst.ok THEN none
        ELSE [ret |-> IF blitRet < 0 THEN "GST_FLOW_ERROR" ELSE "GST_FLOW_OK",
              src_info |-> [src.info EXCEPT !.core = mask],
              dst_info |-> [dst.info EXCEPT !.core = mask],
              inMapinfo |-> src.mapInfo, outMapinfo |-> dst.mapInfo,
              inMapCalled |-> src.mapCalled, outMapCalled |-> dst.mapCalled,
              blitCalled |-> TRUE,
              unmapIn |-> blitRet >= 0, unmapOut |-> blitRet >= 0]

\* transform_frame with c_RkRgaBlit returning blitRet: the flow return, both
\* descriptors, both GstMapInfo, and which calls were made
gst_rga_video_convert_transform_frame(mask, inframe, outframe, blitRet) ==
    LET src == gst_rga_info_from_video_frame(ZeroInfo, inframe, ZeroMapInfo)
        dst == gst_rga_info_from_video_frame(ZeroInfo, outframe, ZeroMapInfo)
        none == [ret |-> "GST_FLOW_ERROR", src_info |-> src.info, dst_info |-> ZeroInfo,
                 inMapinfo |-> src.mapInfo, outMapinfo |-> ZeroMapInfo,
                 inMapCalled |-> src.mapCalled, outMapCalled |-> FALSE,
                 blitCalled |-> FALSE, unmapIn |-> FALSE, unmapOut |-> FALSE]
    IN  IF ~src.ok
        THEN [none EXCEPT !.src_info = ZeroInfo, !.inMapinfo = ZeroMapInfo,
                          !.inMapCalled = FALSE]
        ELSE IF ~dst.ok THEN none
        ELSE [ret |-> IF blitRet < 0 THEN "GST_FLOW_ERROR" ELSE "GST_FLOW_OK",
              src_info |-> [src.info EXCEPT !.core = mask],
              dst_info |-> [dst.info EXCEPT !.core = mask],
              inMapinfo |-> src.mapInfo, outMapinfo |-> dst.mapInfo,
              inMapCalled |-> src.mapCalled, outMapCalled |-> dst.mapCalled,
              blitCalled |-> TRUE, unmapIn |-> TRUE, unmapOut |-> TRUE]

NoFrame == Frame("UNKNOWN", 0, 0, EmptyBuffer)

NoConv ==
    [called |-> FALSE, inframe |-> NoFrame, outframe |-> NoFrame, blitRet |-> 0,
     out |-> gst_rga_video_convert_transform_frame(0, NoFrame, NoFrame, 0)]

InitLife ==
    /\ core_mask = 0
    /\ rgaInits = 0
    /\ rgaDeInits = 0
    /\ running = FALSE
    /\ schedCore = 0
    /\ negotiated = [ok |-> FALSE, in_format |-> "UNKNOWN", out_format |-> "UNKNOWN"]
    /\ mapCount = [b \in {"in", "out"} |-> 0]
    /\ nConvert = 0
    /\ blitFailures = 0
    /\ conv = NoConv

\* gst_rga_video_convert_set_property, GST_RGA_PROP_CORE_MASK
SetProperty(value) ==
    /\ core_mask' = value
    /\ UNCHANGED <<rgaInits, rgaDeInits, running, schedCore, negotiated,
                   mapCount, nConvert, blitFailures, conv>>

\* gst_rga_video_convert_start
Start ==
    /\ rgaInits < MaxLifecycle
    /\ rgaInits' = rgaInits + 1
    /\ schedCore' = IF core_mask # 0 THEN core_mask ELSE schedCore
    /\ running' = TRUE
    /\ UNCHANGED <<core_mask, rgaDeInits, negotiated, mapCount, nConvert,
                   blitFailures, conv>>

\* gst_rga_video_convert_stop
Stop ==
    /\ rgaDeInits < MaxLifecycle
    /\ rgaDeInits' = rgaDeInits + 1
    /\ running' = FALSE
    /\ UNCHANGED <<core_mask, rgaInits, schedCore, negotiated, mapCount,
                   nConvert, blitFailures, conv>>

\* gst_rga_video_convert_set_info
SetInfo(in_format, out_format) ==
    /\ negotiated' = [ok |-> gst_rga_video_convert_set_info(in_format, out_format),
                      in_format |-> in_format, out_format |-> out_format]
    /\ UNCHANGED <<core_mask, rgaInits, rgaDeInits, running, schedCore,
                   mapCount, nConvert, blitFailures, conv>>

\* gst_rga_video_convert_transform_frame, called by the base class on a
\* started element after a successful set_info, with frames of the formats
\* set_info accepted
TransformFrame(inmem, outmem, blitRet) ==
    LET inframe  == Frame(negotiated.in_format, 4, 2, inmem)
        outframe == Frame(negotiated.out_format, 2, 2, outmem)
        out == gst_rga_video_convert_transform_frame(core_mask, inframe, outframe, blitRet)
        delta(mi, unmapped) ==
            (IF mi.memory # "NULL" THEN 1 ELSE 0) - (IF Releases(unmapped, mi) THEN 1 ELSE 0)
    IN  /\ running
        /\ negotiated.ok
        /\ nConvert < MaxConverts
        /\ nConvert' = nConvert + 1
        /\ conv' = [called |-> TRUE, inframe |-> inframe, outframe |-> outframe,
                    blitRet |-> blitRet, out |-> out]
        /\ mapCount' = [b \in {"in", "out"} |->
                           IF b = "in"
                           THEN mapCount[b] + delta(out.inMapinfo, out.unmapIn)
                           ELSE mapCount[b] + delta(out.outMapinfo, out.unmapOut)]
        /\ blitFailures' = IF out.blitCalled /\ blitRet < 0
                           THEN blitFailures + 1 ELSE blitFailures
        /\ UNCHANGED <<core_mask, rgaInits, rgaDeInits, running, schedCore, negotiated>>

(***************************************************************************)
(* SpecBuild: gst_rga_info_from_video_frame applied to one frame.          *)
(***************************************************************************)
\* a frame whose rows carry hpad padding pixels and whose first plane is
\* followed by vpad padding rows
PaddedFrame(format, width, height, hpad, vpad, mem) ==
    [format |-> format, width |-> width, height |-> height,
     stride |-> (width + hpad) * GstPixelBytes(format),
     n_planes |-> GstNPlanes(format),
     offset1 |-> IF GstNPlanes(format) = 1 THEN 0
                 ELSE (width + hpad) * GstPixelBytes(format) * (height + vpad),
     mem |-> mem]

FrameWidths  == (1 .. MaxDim) \cup {1920, 1921}
FrameHeights == (1 .. MaxDim) \cup {1080, 1081}

BuildFrames ==
    {PaddedFrame(f, w, h, hp, vp, m) :
        f \in GstVideoFormats, w \in FrameWidths, h \in FrameHeights,
        hp \in 0 .. MaxPad, vp \in 0 .. MaxPad, m \in MemKinds}

\* a frame whose GstVideoMeta gives plane 0 a stride of the given number of
\* bytes, whatever the width of a row, and puts plane 1 right after plane 0
StridedFrame(format, width, height, stride, mem) ==
    [format |-> format, width |-> width, height |-> height,
     stride |-> stride,
     n_planes |-> GstNPlanes(format),
     offset1 |-> IF GstNPlanes(format) = 1 THEN 0 ELSE stride * height,
     mem |-> mem]

\* plane-0 strides in bytes: up to a row of the widest small frame at 4 bytes
\* per pixel, so both strides below a row and strides that are not a multiple
\* of the pixel size occur
FrameStrides == 1 .. (4 * MaxDim)

MetaFrames ==
    {StridedFrame(f, w, h, s, m) :
        f \in GstVideoFormats, w \in 1 .. MaxDim, h \in 1 .. MaxDim,
        s \in FrameStrides, m \in MemKinds}

NoBuild ==
    [called |-> FALSE,
     out |-> gst_rga_info_from_video_frame(ZeroInfo, NoFrame, ZeroMapInfo)]

InitBuildIdle == bframe = NoFrame /\ bres = NoBuild

InitBuild == bframe \in (BuildFrames \cup MetaFrames) /\ bres = NoBuild

\* one call of gst_rga_info_from_video_frame on zero-filled info and mapInfo,
\* as transform_frame makes it
Build ==
    /\ ~bres.called
    /\ bres' = [called |-> TRUE,
                out |-> gst_rga_info_from_video_frame(ZeroInfo, bframe, ZeroMapInfo)]
    /\ UNCHANGED bframe

(***************************************************************************)
(* Caps: GstCaps as a sequence of (structure, features) entries, a         *)
(* structure as a name and a function from its field names to values, a    *)
(* value as an integer range or a list (set) of strings.                   *)
(***************************************************************************)
IntRange(lo, hi) == [t |-> "range", lo |-> lo, hi |-> hi, s |-> {}]
List(set)        == [t |-> "list", lo |-> 0, hi |-> 0, s |-> set]

\* the bounds written by transform_caps and those of the pad templates
RGA_OUT_MAX   == 4096
RGA_IN_MAX    == 8192
SRC_CAPS_MAX  == 4096
SINK_CAPS_MAX == 8192

\* a fixed value: one integer or one string
gst_value_is_fixed(v) ==
    IF v.t = "range" THEN v.lo = v.hi ELSE Cardinality(v.s) = 1

\* gst_value_compare(v1, v2): equal values are EQUAL, two different fixed
\* values of one type are ordered (LESS_THAN or GREATER_THAN), ranges and
\* lists are otherwise UNORDERED
gst_value_compare(v1, v2) ==
    IF v1 = v2 THEN "EQUAL"
    ELSE IF v1.t = v2.t /\ gst_value_is_fixed(v1) /\ gst_value_is_fixed(v2)
    THEN "ORDERED"
    ELSE "UNORDERED"

\* gst_value_is_subset(v1, v2): range in range and list in list by
\* containment; otherwise v2 - v1 must leave something and v1 - v2 nothing,
\* which two fixed values never satisfy, equal or not
gst_value_is_subset(v1, v2) ==
    IF gst_value_is_fixed(v1) /\ gst_value_is_fixed(v2) THEN FALSE
    ELSE IF v1.t = "range" /\ v2.t = "range" THEN v2.lo <= v1.lo /\ v1.hi <= v2.hi
    ELSE IF v1.t = "list" /\ v2.t = "list" THEN v1.s \subseteq v2.s
    ELSE FALSE

\* gst_value_intersect(v1, v2): [empty, v]
gst_value_intersect(v1, v2) ==
    IF v1.t = "range" /\ v2.t = "range"
    THEN LET lo == IF v1.lo > v2.lo THEN v1.lo ELSE v2.lo
             hi == IF v1.hi < v2.hi THEN v1.hi ELSE v2.hi
         IN  [empty |-> lo > hi, v |-> IntRange(lo, hi)]
    ELSE IF v1.t = "list" /\ v2.t = "list"
    THEN [empty |-> v1.s \cap v2.s = {}, v |-> List(v1.s \cap v2.s)]
    ELSE [empty |-> TRUE, v |-> v1]

\* gst_structure_is_subset(subset, superset)
gst_structure_is_subset(subset, superset) ==
    /\ subset.name = superset.name
    /\ DOMAIN superset.fields \subseteq DOMAIN subset.fields
    /\ \A f \in DOMAIN superset.fields :
           LET comparison == gst_value_compare(superset.fields[f], subset.fields[f])
           IN  \/ comparison = "EQUAL"
               \/ /\ comparison = "UNORDERED"
                  /\ gst_value_is_subset(subset.fields[f], superset.fields[f])

gst_caps_features_is_any(features) == features = "ANY"

\* gst_caps_features_is_equal(f1, f2): ANY is equal to every features
gst_caps_features_is_equal(f1, f2) ==
    IF gst_caps_features_is_any(f1) \/ gst_caps_features_is_any(f2)
    THEN TRUE
    ELSE f1 = f2

\* gst_caps_is_subset_structure_full(caps, structure, features)
gst_caps_is_subset_structure_full(caps, structure, features) ==
    \E k \in 1 .. Len(caps) :
        /\ ~gst_caps_features_is_any(features) \/ gst_caps_features_is_any(caps[k].features)
        /\ gst_caps_features_is_equal(features, caps[k].features)
        /\ gst_structure_is_subset(structure, caps[k].structure)

\* variant: gst_caps_is_subset_structure, which does not look at the features
AlreadyExpressed_AnyFeatures(ret, entry, i) ==
    i > 1 /\ \E k \in 1 .. Len(ret) :
                 gst_structure_is_subset(entry.structure, ret[k].structure)

\* "if this is already expressed by the existing caps skip this structure";
\* i counts from 1
AlreadyExpressed(ret, entry, i) ==
    i > 1 /\ gst_caps_is_subset_structure_full(ret, entry.structure, entry.features)

\* variant: the two bounds exchanged
SizeRange_Swapped(direction) ==
    IF direction = "GST_PAD_SRC" THEN IntRange(1, RGA_IN_MAX) ELSE IntRange(1, RGA_OUT_MAX)

\* the range transform_caps writes into width and height
SizeRange(direction) ==
    IF direction = "GST_PAD_SRC" THEN IntRange(1, RGA_OUT_MAX) ELSE IntRange(1, RGA_IN_MAX)

\* gst_structure_set(structure, "width", range, "height", range, NULL)
SetSize(structure, direction) ==
    [structure EXCEPT !.fields =
        [f \in DOMAIN structure.fields \cup {"width", "height"} |->
            IF f \in {"width", "height"} THEN SizeRange(direction)
            ELSE structure.fields[f]]]

FormatFields == {"format", "colorimetry", "chroma-site"}

\* variant: the format fields removed whatever the features are
StripFormat_Always(structure, features) ==
    [structure EXCEPT !.fields =
        [f \in DOMAIN structure.fields \ FormatFields |-> structure.fields[f]]]

\* gst_structure_remove_fields(...) unless the features are ANY
StripFormat(structure, features) ==
    IF ~gst_caps_features_is_any(features)
    THEN [structure EXCEPT !.fields =
             [f \in DOMAIN structure.fields \ FormatFields |-> structure.fields[f]]]
    ELSE structure

\* the for loop from index i on; acc.ret is ret, acc.from lists the indices
\* of the structures copied into it
RECURSIVE TransformLoop(_, _, _, _)
TransformLoop(direction, caps, i, acc) ==
    IF i > Len(caps) THEN acc
    ELSE IF AlreadyExpressed(acc.ret, caps[i], i)
    THEN TransformLoop(direction, caps, i + 1, acc)
    ELSE TransformLoop(direction, caps, i + 1,
             [ret |-> Append(acc.ret,
                         [structure |-> StripFormat(SetSize(caps[i].structure, direction),
                                                    caps[i].features),
                          features |-> caps[i].features]),
              from |-> Append(acc.from, i)])

\* gst_structure_intersect(s1, s2): [empty, s]
gst_structure_intersect(s1, s2) ==
    LET both == DOMAIN s1.fields \cap DOMAIN s2.fields
    IN  [empty |-> s1.name # s2.name \/
                   \E f \in both : gst_value_intersect(s1.fields[f], s2.fields[f]).empty,
         s |-> [name |-> s1.name,
                fields |-> [f \in DOMAIN s1.fields \cup DOMAIN s2.fields |->
                              IF f \in both
                              THEN gst_value_intersect(s1.fields[f], s2.fields[f]).v
                              ELSE IF f \in DOMAIN s1.fields THEN s1.fields[f]
                              ELSE s2.fields[f]]]]

\* gst_caps_merge_structure_full(dest, structure, features)
gst_caps_merge_structure_full(dest, structure, features) ==
    IF gst_caps_is_subset_structure_full(dest, structure, features) THEN dest
    ELSE Append(dest, [structure |-> structure, features |-> features])

\* the double loop of gst_caps_intersect_first over caps1[i], caps2[j]
RECURSIVE IntersectLoop(_, _, _, _, _)
IntersectLoop(caps1, caps2, i, j, dest) ==
    IF i > Len(caps1) THEN dest
    ELSE IF j > Len(caps2) THEN IntersectLoop(caps1, caps2, i + 1, 1, dest)
    ELSE LET e1 == caps1[i]
             e2 == caps2[j]
             is == gst_structure_intersect(e1.structure, e2.structure)
         IN  IF gst_caps_features_is_equal(e1.features, e2.features) /\ ~is.empty
             THEN IntersectLoop(caps1, caps2, i, j + 1,
                      gst_caps_merge_structure_full(dest, is.s,
                          IF gst_caps_features_is_any(e1.features)
                          THEN e2.features ELSE e1.features))
             ELSE IntersectLoop(caps1, caps2, i, j + 1, dest)

\* gst_caps_intersect_full(caps1, caps2, GST_CAPS_INTERSECT_FIRST)
gst_caps_intersect_full(caps1, caps2) ==
    IF caps1 = <<>> \/ caps2 = <<>> THEN <<>>
    ELSE IntersectLoop(caps1, caps2, 1, 1, <<>>)

NoFilter == [present |-> FALSE, caps |-> <<>>]

\* the caps transform_caps returns
gst_rga_video_convert_transform_caps(direction, caps, filter) ==
    LET ret == TransformLoop(direction, caps, 1, [ret |-> <<>>, from |-> <<>>]).ret
    IN  IF filter.present THEN gst_caps_intersect_full(filter.caps, ret) ELSE ret

\* the indices of caps whose structures the loop copied, in order
CopiedFrom(direction, caps) ==
    TransformLoop(direction, caps, 1, [ret |-> <<>>, from |-> <<>>]).from

(***************************************************************************)
(* SpecCaps: transform_caps applied to a caps, then to its own result.     *)
(***************************************************************************)
Directions == {"GST_PAD_SRC", "GST_PAD_SINK"}
Features   == {"memory:SystemMemory", "memory:DMABuf", "ANY"}

\* a video/x-raw structure: fmt, size and rate choose the fields present
MkStructure(fmt, size, rate) ==
    LET dom == (IF fmt = "none" THEN {} ELSE {"format", "colorimetry"})
               \cup (IF fmt = "NV12" THEN {"chroma-site"} ELSE {})
               \cup (IF size = "none" THEN {} ELSE {"width", "height"})
               \cup (IF rate = "none" THEN {} ELSE {"framerate"})
    IN  [name |-> "video/x-raw",
         fields |-> [f \in dom |->
            CASE f = "format" -> List({fmt})
              [] f = "colorimetry" -> List({IF fmt = "NV12" THEN "bt709" ELSE "sRGB"})
              [] f = "chroma-site" -> List({"mpeg2"})
              [] f = "width" -> IF size = "huge" THEN IntRange(1, 20000)
                                ELSE IntRange(640, 640)
              [] f = "height" -> IF size = "huge" THEN IntRange(1, 20000)
                                 ELSE IntRange(480, 480)
              [] OTHER -> List({rate})]]

CapsEntries ==
    {[structure |-> MkStructure(fmt, size, "none"), features |-> ft] :
        fmt \in {"none", "NV12", "RGBA"}, size \in {"none", "huge", "fixed"},
        ft \in Features}
    \cup
    {[structure |-> MkStructure("none", size, "30/1"), features |-> "memory:SystemMemory"] :
        size \in {"none", "huge", "fixed"}}

RECURSIVE SeqsUpTo(_, _)
SeqsUpTo(S, n) ==
    IF n = 0 THEN {<<>>}
    ELSE LET shorter == SeqsUpTo(S, n - 1)
         IN  shorter \cup {Append(q, e) : q \in shorter, e \in S}

CapsInputs == SeqsUpTo(CapsEntries, MaxCaps)

Filters ==
    {NoFilter,
     [present |-> TRUE,
      caps |-> <<[structure |->
                    [name |-> "video/x-raw",
                     fields |-> [f \in {"format", "width", "height"} |->
                        CASE f = "format" -> List({"NV12"})
                          [] f = "width" -> IntRange(1, 1920)
                          [] OTHER -> IntRange(1, 1080)]],
                  features |-> "memory:SystemMemory"]>>]}

NoCapsRet == [round |-> 0, caps |-> <<>>, from |-> <<>>]

InitCapsIdle ==
    capsIn = <<>> /\ capsDir = "GST_PAD_SRC" /\ capsFilter = NoFilter /\ capsRet = NoCapsRet

InitCaps ==
    /\ capsIn \in CapsInputs
    /\ capsDir \in Directions
    /\ capsFilter \in Filters
    /\ capsRet = NoCapsRet

\* gst_rga_video_convert_transform_caps(trans, capsDir, capsIn, capsFilter)
TransformCaps ==
    /\ capsRet.round = 0
    /\ capsRet' = [round |-> 1,
                   caps |-> gst_rga_video_convert_transform_caps(capsDir, capsIn, capsFilter),
                   from |-> CopiedFrom(capsDir, capsIn)]
    /\ UNCHANGED <<capsIn, capsDir, capsFilter>>

\* the same call again, on the caps the previous call returned
TransformCapsAgain ==
    /\ capsRet.round >= 1
    /\ capsRet.round < MaxRounds
    /\ capsIn' = capsRet.caps
    /\ capsRet' = [round |-> capsRet.round + 1,
                   caps |-> gst_rga_video_convert_transform_caps(capsDir, capsRet.caps,
                                                                 capsFilter),
                   from |-> CopiedFrom(capsDir, capsRet.caps)]
    /\ UNCHANGED <<capsDir, capsFilter>>
Init == InitLife /\ InitBuildIdle /\ InitCapsIdle

Next ==
    \/ \E value \in CoreMasks : SetProperty(value) /\ UNCHANGED <<buildVars, capsVars>>
    \/ Start /\ UNCHANGED <<buildVars, capsVars>>
    \/ Stop /\ UNCHANGED <<buildVars, capsVars>>
    \/ \E i \in InFormats, o \in OutFormats :
           SetInfo(i, o) /\ UNCHANGED <<buildVars, capsVars>>
    \/ \E im \in ConvMemKinds, om \in ConvMemKinds, blitRet \in {0, -1} :
           TransformFrame(im, om, blitRet) /\ UNCHANGED <<buildVars, capsVars>>

Spec == Init /\ [][Next]_vars

NextBuild == Build /\ UNCHANGED <<lifeVars, capsVars>>

InitSpecBuild == InitLife /\ InitBuild /\ InitCapsIdle

SpecBuild == InitSpecBuild /\ [][NextBuild]_vars

NextCaps ==
    \/ TransformCaps /\ UNCHANGED <<lifeVars, buildVars>>
    \/ TransformCapsAgain /\ UNCHANGED <<lifeVars, buildVars>>

InitSpecCaps == InitLife /\ InitBuildIdle /\ InitCaps

SpecCaps == InitSpecCaps /\ [][NextCaps]_vars

(***************************************************************************)
(* Properties of the element's life (specification Spec).                  *)
(***************************************************************************)
Mapped(format) == gst_gst_format_to_rga_format(format) # "RK_FORMAT_UNKNOWN"

\* the frame's buffer is one dmabuf block at offset zero
ZeroCopy(frame) ==
    frame.mem.n_memory = 1 /\ frame.mem.is_dmabuf /\ frame.mem.offset = 0

\* C1: set_info succeeds only when the input format and the output format
\* both map to a surface format, so that after a successful set_info no
\* transform_frame fails in a descriptor build over an unmapped format.
C1_SetupRejectsUnmapped ==
    /\ negotiated.ok => Mapped(negotiated.in_format) /\ Mapped(negotiated.out_format)
    /\ conv.called => (conv.out.blitCalled \/
                       (Mapped(conv.inframe.format) /\ Mapped(conv.outframe.format)))

\* C2: when transform_frame has returned, every mapping it acquired has been
\* released exactly once (none is outstanding on either buffer), on every exit
\* path, and nothing was released that was not mapped.
C2_MappingsReleased ==
    conv.called =>
        /\ mapCount["in"] = 0 /\ mapCount["out"] = 0
        /\ (conv.out.inMapinfo.memory # "NULL") =
               Releases(conv.out.unmapIn, conv.out.inMapinfo)
        /\ (conv.out.outMapinfo.memory # "NULL") =
               Releases(conv.out.unmapOut, conv.out.outMapinfo)

\* C3: a transform_frame step whose blit fails returns GST_FLOW_ERROR, leaves
\* no mapping of that call outstanding and leaves core_mask, the started state
\* and the negotiated formats as they were; and a transform_frame step over
\* frames of mapped formats whose blit succeeds returns GST_FLOW_OK, however
\* many blits failed before it.
C3_BlitFailureContained ==
    [][ (nConvert' = nConvert + 1) =>
          /\ (conv'.out.blitCalled /\ conv'.blitRet < 0) =>
                /\ conv'.out.ret = "GST_FLOW_ERROR"
                /\ blitFailures' = blitFailures + 1
                /\ mapCount' = mapCount
                /\ core_mask' = core_mask
                /\ running' = running
                /\ negotiated' = negotiated
          /\ (Mapped(conv'.inframe.format) /\ Mapped(conv'.outframe.format)
              /\ conv'.blitRet >= 0) =>
                /\ conv'.out.ret = "GST_FLOW_OK"
                /\ mapCount' = mapCount ]_vars

\* a successful conversion over two host-mapped frames right after two
\* conversions whose blit failed
C3_Witness ==
    /\ conv.called /\ nConvert = 3 /\ blitFailures = 2
    /\ conv.out.ret = "GST_FLOW_OK"
    /\ conv.out.inMapinfo.memory # "NULL" /\ conv.out.outMapinfo.memory # "NULL"
    /\ mapCount["in"] = 0 /\ mapCount["out"] = 0

\* what C4 says of one frame of a transform_frame call
C4_FrameOk(frame, built, info, mapCalled, mapInfo, unmapCalled) ==
    built =>
        IF ZeroCopy(frame)
        THEN ~mapCalled /\ info.fd = frame.mem.fd /\ info.virAddr = "NULL"
        ELSE mapCalled /\
             (mapInfo.memory # "NULL" => Releases(unmapCalled, mapInfo))

\* C4: a descriptor build over a frame whose buffer is one dmabuf block at
\* offset zero maps nothing and takes the exported fd; over any other frame
\* it maps the buffer once, and that mapping is released once.
C4_ZeroCopyOrOneMapping ==
    conv.called =>
        /\ C4_FrameOk(conv.inframe, Mapped(conv.inframe.format), conv.out.src_info,
                      conv.out.inMapCalled, conv.out.inMapinfo, conv.out.unmapIn)
        /\ C4_FrameOk(conv.outframe,
                      Mapped(conv.inframe.format) /\ Mapped(conv.outframe.format),
                      conv.out.dst_info, conv.out.outMapCalled,
                      conv.out.outMapinfo, conv.out.unmapOut)

\* the descriptor refers to memory in exactly one way
OneMemoryRef(info) == (info.fd > 0) # (info.virAddr # "NULL")

\* the frame has memory the accelerator can be pointed at
UsableMemory(frame) == ZeroCopy(frame) \/ (frame.mem.n_memory > 0 /\ frame.mem.map_ok)

\* C5: a build over a frame without usable memory fails, and each descriptor
\* handed to the blit holds exactly one of an exported fd and a mapped
\* address.
C5_OneMemoryReference ==
    (conv.called /\ conv.out.blitCalled) =>
        /\ UsableMemory(conv.inframe) /\ UsableMemory(conv.outframe)
        /\ OneMemoryRef(conv.out.src_info)
        /\ OneMemoryRef(conv.out.dst_info)

\* C6: stop on a stopped element releases nothing, so the c_RkRgaDeInit calls
\* never outnumber the c_RkRgaInit calls.
C6_ReleasesWithinAcquisitions == rgaDeInits <= rgaInits

(***************************************************************************)
(* Properties of transform_caps (specification SpecCaps).                  *)
(***************************************************************************)
\* C7: without a filter every structure transform_caps returns has width and
\* height [1,4096] for direction GST_PAD_SRC and [1,8192] for GST_PAD_SINK,
\* whatever the ranges of the input were; these are the bounds of the src and
\* of the sink pad template.
C7_SizeClamped ==
    (capsRet.round >= 1 /\ ~capsFilter.present) =>
        \A k \in 1 .. Len(capsRet.caps) :
            LET fields == capsRet.caps[k].structure.fields
                max == IF capsDir = "GST_PAD_SRC" THEN SRC_CAPS_MAX ELSE SINK_CAPS_MAX
            IN  /\ {"width", "height"} \subseteq DOMAIN fields
                /\ fields["width"] = IntRange(1, max)
                /\ fields["height"] = IntRange(1, max)

\* a first call, toward the sink, on a structure of width and height
\* [1,20000] returned one of [1,8192]
C7_Witness ==
    /\ capsRet.round = 1 /\ ~capsFilter.present /\ capsDir = "GST_PAD_SINK"
    /\ Len(capsIn) = 1 /\ Len(capsRet.caps) = 1
    /\ "width" \in DOMAIN capsIn[1].structure.fields
    /\ capsIn[1].structure.fields["width"] = IntRange(1, 20000)
    /\ capsRet.caps[1].structure.fields["width"] = IntRange(1, 8192)

\* C8 as claimed: transform_caps applied to what it returned (same direction,
\* no filter) returns the same caps, entry for entry.
C8_Idempotent ==
    (capsRet.round >= 2 /\ ~capsFilter.present) => capsRet.caps = capsIn

\* entry k of caps is a subset of an earlier entry with equal features
Subsumed(caps, k) ==
    \E j \in 1 .. k - 1 :
        /\ ~gst_caps_features_is_any(caps[k].features) \/
               gst_caps_features_is_any(caps[j].features)
        /\ gst_caps_features_is_equal(caps[k].features, caps[j].features)
        /\ gst_structure_is_subset(caps[k].structure, caps[j].structure)

\* sub is caps with some entries left out, the order kept
RECURSIVE IsSubsequence(_, _)
IsSubsequence(sub, caps) ==
    IF sub = <<>> THEN TRUE
    ELSE IF caps = <<>> THEN FALSE
    ELSE IF Head(sub) = Head(caps) THEN IsSubsequence(Tail(sub), Tail(caps))
    ELSE IsSubsequence(sub, Tail(caps))

\* caps without the entries that are a subset of an earlier entry of caps
\* whose features are the same or (for an entry not under ANY) ANY, from
\* index k on
RECURSIVE WithoutSubsumed(_, _)
WithoutSubsumed(caps, k) ==
    IF k > Len(caps) THEN <<>>
    ELSE IF Subsumed(caps, k) THEN WithoutSubsumed(caps, k + 1)
    ELSE <<caps[k]>> \o WithoutSubsumed(caps, k + 1)

\* C8 amended: without a filter, the second call returns the result of the
\* first without exactly those entries that are a subset of an earlier entry
\* of it whose features are the same or (for an entry not under ANY) ANY:
\* each such entry is left out, every other entry is kept, unchanged and in
\* order, and none is added; every entry of the first result stays a subset
\* of an entry of the second with such features; the first result is returned
\* unchanged when it has no such entry; and from the third call on the
\* result no longer changes.
C8_IdempotentFromSecondCall ==
    (capsRet.round >= 2 /\ ~capsFilter.present) =>
        /\ capsRet.caps = WithoutSubsumed(capsIn, 1)
        /\ capsRet.from = SelectSeq([k \in 1 .. Len(capsIn) |-> k],
                                    LAMBDA k : ~Subsumed(capsIn, k))
        /\ IsSubsequence(capsRet.caps, capsIn)
        /\ \A k \in 1 .. Len(capsIn) :
               \E j \in 1 .. Len(capsRet.caps) :
                   /\ capsIn[k].features = capsRet.caps[j].features \/
                          (capsIn[k].features # "ANY" /\ capsRet.caps[j].features = "ANY")
                   /\ gst_structure_is_subset(capsIn[k].structure, capsRet.caps[j].structure)
        /\ (\A k \in 1 .. Len(capsIn) : ~Subsumed(capsIn, k)) => capsRet.caps = capsIn
        /\ capsRet.round >= 3 => capsRet.caps = capsIn

\* a second call left out the second of two equal entries the first call had
\* returned
C8_Witness ==
    /\ capsRet.round = 2 /\ ~capsFilter.present
    /\ Len(capsIn) = 2 /\ capsIn[1] = capsIn[2]
    /\ capsRet.caps = <<capsIn[1]>>

\* C9: without a filter, the k-th structure returned is the copy of the input
\* structure from[k]: it has the input's features; under features other than
\* ANY it has no format, colorimetry or chroma-site field, under ANY it has
\* those of the input with their values; and every other field but width and
\* height is as in the input.
C9_FormatFieldsByFeatures ==
    (capsRet.round = 1 /\ ~capsFilter.present) =>
        /\ Len(capsRet.from) = Len(capsRet.caps)
        /\ \A k \in 1 .. Len(capsRet.caps) :
               LET in  == capsIn[capsRet.from[k]]
                   out == capsRet.caps[k]
                   fin  == in.structure.fields
                   fout == out.structure.fields
               IN  /\ out.features = in.features
                   /\ out.structure.name = in.structure.name
                   /\ IF in.features = "ANY"
                      THEN \A f \in FormatFields :
                               /\ (f \in DOMAIN fout) = (f \in DOMAIN fin)
                               /\ f \in DOMAIN fin => fout[f] = fin[f]
                      ELSE DOMAIN fout \cap FormatFields = {}
                   /\ DOMAIN fout \ (FormatFields \cup {"width", "height"}) =
                          DOMAIN fin \ (FormatFields \cup {"width", "height"})
                   /\ \A f \in DOMAIN fin \ (FormatFields \cup {"width", "height"}) :
                          fout[f] = fin[f]

\* a call copied a structure with format fields under ANY, which kept them,
\* and one under system memory with a framerate, which kept only that
C9_Witness ==
    /\ capsRet.round = 1 /\ ~capsFilter.present
    /\ Len(capsRet.caps) = 2 /\ capsRet.from = <<1, 2>>
    /\ capsIn[1].features = "ANY"
    /\ "chroma-site" \in DOMAIN capsIn[1].structure.fields
    /\ "chroma-site" \in DOMAIN capsRet.caps[1].structure.fields
    /\ capsIn[2].features = "memory:SystemMemory"
    /\ DOMAIN capsIn[2].structure.fields = {"framerate"}
    /\ DOMAIN capsRet.caps[2].structure.fields = {"framerate", "width", "height"}

(***************************************************************************)
(* Properties of the descriptor build (specification SpecBuild).           *)
(***************************************************************************)
YuvFormats == {"I420", "YV12", "NV12", "NV21", "Y42B", "NV16", "NV61"}

\* C10: the rectangle built for a frame of a YUV format has the frame's width
\* and height rounded down to even values, and the horizontal stride the test
\* against the rounded width leaves (the frame's, either way, at one byte per
\* pixel); for a packed RGB format width and height are those of the frame.
C10_YuvEvenRect ==
    (bres.called /\ bres.out.ok) =>
        LET rect == bres.out.info.rect
            evenW == 2 * (bframe.width \div 2)
            evenH == 2 * (bframe.height \div 2)
        IN  IF bframe.format \in YuvFormats
            THEN /\ rect.width = evenW
                 /\ rect.height = evenH
                 /\ rect.wstride = bframe.stride
            ELSE /\ rect.width = bframe.width
                 /\ rect.height = bframe.height

\* the build of a 1921 x 1081 NV12 frame gave a 1920 x 1080 rectangle
C10_Witness ==
    /\ bres.called /\ bres.out.ok
    /\ bframe.format = "NV12" /\ bframe.width = 1921 /\ bframe.height = 1081
    /\ bres.out.info.rect.width = 1920 /\ bres.out.info.rect.height = 1080

\* C11: every descriptor a successful build produces carries a horizontal
\* stride in pixel units that is at least its width: the wstride written into
\* the rectangle is the frame's plane-0 byte stride divided by the bytes per
\* pixel of the surface format (4, 3, 2 or 1), and it is >= the rectangle's
\* width; no successful build carries a raw byte stride or a stride below
\* the width.
C11_StrideInPixelsAtLeastWidth ==
    (bres.called /\ bres.out.ok) =>
        LET rect == bres.out.info.rect
            pixelByteWidth == PixelStride(rect.format)
        IN  /\ rect.wstride = bframe.stride \div pixelByteWidth
            /\ rect.wstride >= rect.width

====
